---- MODULE Spec2Model ----
(***************************************************************************)
(* Model of the fees calculator contract (fees/src/lib.rs): the stored     *)
(* percent, the owner, the set of supported tokens, the percent parser     *)
(* and formatter (through f64) and the u128 fee computation.               *)
(*                                                                         *)
(* Wide integers (u128, the f64 significand) are little-endian sequences   *)
(* of bits without leading zeros (<<>> is 0), so that no width is lost.    *)
(* Strings are sequences of one-character strings.                         *)
(***************************************************************************)
EXTENDS Integers, Sequences, FiniteSets, TLC

\* ------------------------------------------------------------------------
\* Program constants (lib.rs lines 11-13)
MIN_FEE_PERCENT == 1
MAX_FEE_PERCENT == 1000
DEFAULT_PERCENT == 500

\* ------------------------------------------------------------------------
\* Arbitrary-width naturals as bit sequences
RECURSIVE NatToBits(_)
NatToBits(n) == IF n = 0 THEN <<>> ELSE <<n % 2>> \o NatToBits(n \div 2)

RECURSIVE BitsToNat(_)
BitsToNat(b) == IF b = <<>> THEN 0 ELSE Head(b) + 2 * BitsToNat(Tail(b))

\* b without its leading (most significant) zero bits
RECURSIVE Trim(_)
Trim(b) ==
    IF b = <<>> THEN <<>>
    ELSE IF b[Len(b)] = 0 THEN Trim(SubSeq(b, 1, Len(b) - 1))
    ELSE b

Zeros(n) == [i \in 1..n |-> 0]

Ones(n) == [i \in 1..n |-> 1]

\* b * 2^n
ShiftLeft(b, n) == IF b = <<>> THEN <<>> ELSE Zeros(n) \o b

\* b * k + c for small naturals k and c, as Len(b) result bits and a carry
\* out; the two halves of b are done one after the other, low half first.
\* (The test on c makes TLC evaluate the incoming carry before descending,
\* which keeps its evaluation stack shallow.)
RECURSIVE MulCarry(_, _, _)
MulCarry(b, k, c) ==
    IF c < 0 \/ b = <<>> THEN [bits |-> <<>>, carry |-> c]
    ELSE IF Len(b) = 1
    THEN [bits |-> <<(b[1] * k + c) % 2>>, carry |-> (b[1] * k + c) \div 2]
    ELSE LET h  == Len(b) \div 2
             lo == MulCarry(SubSeq(b, 1, h), k, c)
             hi == MulCarry(SubSeq(b, h + 1, Len(b)), k, lo.carry)
         IN  [bits |-> lo.bits \o hi.bits, carry |-> hi.carry]

\* b * k + c for small naturals k and c, exact (no width limit)
BigMulAdd(b, k, c) ==
    LET r == MulCarry(b, k, c) IN Trim(r.bits \o NatToBits(r.carry))

BigMulSmall(b, k) == BigMulAdd(b, k, 0)

BigAddSmall(b, k) == BigMulAdd(b, 1, k)

\* quotient (Len(b) bits) and remainder of (rin * 2^Len(b) + b) by a small
\* positive d, for rin < d: long division, high half of b first.
\* (The test on rin makes TLC evaluate the incoming remainder before
\* descending.)
RECURSIVE DivCarry(_, _, _)
DivCarry(b, d, rin) ==
    IF rin < 0 \/ b = <<>> THEN [q |-> <<>>, r |-> rin]
    ELSE IF Len(b) = 1
    THEN [q |-> <<(2 * rin + b[1]) \div d>>, r |-> (2 * rin + b[1]) % d]
    ELSE LET h  == Len(b) \div 2
             hi == DivCarry(SubSeq(b, h + 1, Len(b)), d, rin)
             lo == DivCarry(SubSeq(b, 1, h), d, hi.r)
         IN  [q |-> lo.q \o hi.q, r |-> lo.r]

\* quotient and remainder of b by a small positive d
DivRem(b, d) == LET r == DivCarry(b, d, 0) IN [q |-> Trim(r.q), r |-> r.r]

BigDivSmall(b, d) == DivRem(b, d).q

\* a <= b on trimmed bit sequences: the most significant difference decides
BigLeq(a, b) ==
    IF Len(a) # Len(b) THEN Len(a) < Len(b)
    ELSE a = b \/ \E i \in 1..Len(a) :
                     a[i] < b[i] /\ \A j \in (i + 1)..Len(a) : a[j] = b[j]

\* ------------------------------------------------------------------------
\* u128 arithmetic of calculate_fees (lib.rs lines 52-55)
U128_BITS == 128

U128_MAX == Ones(U128_BITS)

None == [some |-> FALSE]

Some(v) == [some |-> TRUE, val |-> v]

\* u128::checked_mul with a left operand that fits a machine word
checked_mul(k, b) ==
    LET prod == BigMulSmall(b, k)
    IN  IF Len(prod) > U128_BITS THEN None ELSE Some(prod)

\* Option::<u128>::unwrap_or_default: the default of u128 is 0
unwrap_or_default(opt) == IF opt.some THEN opt.val ELSE <<>>

\* u128::saturating_div: an unsigned division cannot overflow
saturating_div(b, d) == BigDivSmall(b, d)

\* ------------------------------------------------------------------------
\* Results: Ok(v) / Err(e) of Rust's Result
Ok(v) == [ok |-> TRUE, val |-> v]

Err(e) == [ok |-> FALSE, err |-> e]

\* ------------------------------------------------------------------------
\* f64 (IEEE 754 binary64, round to nearest, ties to even).  A value is
\* [neg, m, e]: (-1)^neg * m * 2^e with m of exactly F64_MANT bits, or
\* m = <<>> for zero.  The values met here are far from the subnormal and
\* the overflow ranges, so the exponent is unbounded.
F64_MANT == 53

\* the f64 nearest to (q + f) * 2^e, where 0 <= f < 1 and sticky = (f # 0);
\* a sticky q must have more than F64_MANT bits
RoundF64(neg, q, sticky, e) ==
    LET n == Len(q) - F64_MANT
    IN  IF q = <<>> THEN [neg |-> neg, m |-> <<>>, e |-> 0]
        ELSE IF n <= 0 THEN [neg |-> neg, m |-> ShiftLeft(q, -n), e |-> e + n]
        ELSE LET kept  == SubSeq(q, n + 1, Len(q))
                 guard == q[n]
                 rest  == sticky \/ \E i \in 1..(n - 1) : q[i] = 1
                 up    == guard = 1 /\ (rest \/ kept[1] = 1)
                 r     == IF up THEN BigAddSmall(kept, 1) ELSE kept
             IN  IF Len(r) > F64_MANT
                 THEN [neg |-> neg, m |-> SubSeq(r, 2, Len(r)), e |-> e + n + 1]
                 ELSE [neg |-> neg, m |-> r, e |-> e + n]

RECURSIVE Pow10(_)
Pow10(d) == IF d = 0 THEN 1 ELSE 10 * Pow10(d - 1)

\* the f64 nearest to the decimal n / 10^d
DecToF64(neg, n, d) ==
    LET dr == DivRem(ShiftLeft(NatToBits(n), 2 * F64_MANT), Pow10(d))
    IN  RoundF64(neg, dr.q, dr.r # 0, -(2 * F64_MANT))

\* x * k for a small natural k (k is exactly representable): `p * 100.0`
f64_mul(x, k) == RoundF64(x.neg, BigMulSmall(x.m, k), FALSE, x.e)

\* x / k for a small natural k: `self.percent.0 as f64 / 100.0`
f64_div(x, k) ==
    LET dr == DivRem(ShiftLeft(x.m, 2 * F64_MANT), k)
    IN  RoundF64(x.neg, dr.q, dr.r # 0, x.e - 2 * F64_MANT)

\* `u64 as f64`
u64_as_f64(n) == RoundF64(FALSE, NatToBits(n), FALSE, 0)

\* `f64 as u64`: truncation toward zero, negatives saturate to 0.  The values
\* met here are below 2^31, far from the saturation at u64::MAX.
f64_as_u64(x) ==
    IF x.m = <<>> \/ x.neg THEN 0
    ELSE IF x.e >= 0 THEN BitsToNat(ShiftLeft(x.m, x.e))
    ELSE IF -x.e >= Len(x.m) THEN 0
    ELSE BitsToNat(SubSeq(x.m, 1 - x.e, Len(x.m)))

\* ------------------------------------------------------------------------
\* Strings
DigitChars == <<"0", "1", "2", "3", "4", "5", "6", "7", "8", "9">>

DigitSet == {DigitChars[i] : i \in 1..10}

DigitVal(c) == (CHOOSE i \in 1..10 : DigitChars[i] = c) - 1

RECURSIVE DigitsToNat(_)
DigitsToNat(ds) ==
    IF ds = <<>> THEN 0
    ELSE 10 * DigitsToNat(SubSeq(ds, 1, Len(ds) - 1)) + DigitVal(ds[Len(ds)])

RECURSIVE NatToDigits(_)
NatToDigits(n) ==
    IF n < 10 THEN <<DigitChars[n + 1]>>
    ELSE NatToDigits(n \div 10) \o <<DigitChars[(n % 10) + 1]>>

\* str::split_once: the parts before and after the first occurrence of c
split_once(s, c) ==
    IF \E i \in 1..Len(s) : s[i] = c
    THEN LET i == CHOOSE k \in 1..Len(s) :
                      s[k] = c /\ \A j \in 1..(k - 1) : s[j] # c
         IN  Some(<<SubSeq(s, 1, i - 1), SubSeq(s, i + 1, Len(s))>>)
    ELSE None

\* f64::from_str on strings over digits, ".", "+", "-" and characters that
\* occur in no float literal: [sign] digits ["." digits] with at least one
\* digit; anything else is a ParseFloatError
f64_from_str(s) ==
    LET signed == s # <<>> /\ s[1] \in {"+", "-"}
        neg    == signed /\ s[1] = "-"
        body   == IF signed THEN Tail(s) ELSE s
        sp     == split_once(body, ".")
        ip     == IF sp.some THEN sp.val[1] ELSE body
        fp     == IF sp.some THEN sp.val[2] ELSE <<>>
        digits == ip \o fp
    IN  IF digits = <<>> \/ \E i \in 1..Len(digits) : digits[i] \notin DigitSet
        THEN Err("ParseFloat")
        ELSE Ok(DecToF64(neg, DigitsToNat(digits), Len(fp)))

\* `{:.2}` of an f64: the exact value rounded to hundredths (ties to even),
\* printed with two decimals
format_2(x) ==
    LET scaled == BigMulSmall(x.m, 100)
        n      == -x.e
        whole  == IF n <= 0 THEN ShiftLeft(scaled, -n)
                  ELSE IF n >= Len(scaled) THEN <<>>
                  ELSE SubSeq(scaled, n + 1, Len(scaled))
        guard  == IF n >= 1 /\ n <= Len(scaled) THEN scaled[n] ELSE 0
        rest   == \E i \in 1..(n - 1) : i <= Len(scaled) /\ scaled[i] = 1
        even   == whole = <<>> \/ whole[1] = 0
        up     == guard = 1 /\ (rest \/ ~even)
        cents  == BitsToNat(IF up THEN BigAddSmall(whole, 1) ELSE whole)
    IN  NatToDigits(cents \div 100)
          \o <<".", DigitChars[((cents \div 10) % 10) + 1], DigitChars[(cents % 10) + 1]>>

\* ------------------------------------------------------------------------
\* validate_decimal_part (lib.rs lines 167-172)
validate_decimal_part(percent) ==
    LET sp == split_once(percent, ".")
    IN  IF sp.some /\ Len(sp.val[2]) > 2 THEN Err("TooManyDecimals") ELSE Ok(<<>>)

\* parse_percent without the TooHighPercent branch
parse_percent_no_max(percent) ==
    LET v == validate_decimal_part(percent)
        f == f64_from_str(percent)
        result == f64_as_u64(f64_mul(f.val, 100))
    IN  IF ~v.ok THEN v
        ELSE IF ~f.ok THEN f
        ELSE IF result < MIN_FEE_PERCENT THEN Err("TooLowPercent")
        ELSE Ok(result)

\* parse_percent (lib.rs lines 129-143)
parse_percent(percent) ==
    LET v == validate_decimal_part(percent)
        f == f64_from_str(percent)
        result == f64_as_u64(f64_mul(f.val, 100))
    IN  IF ~v.ok THEN v
        ELSE IF ~f.ok THEN f
        ELSE IF result < MIN_FEE_PERCENT THEN Err("TooLowPercent")
        ELSE IF result > MAX_FEE_PERCENT THEN Err("TooHighPercent")
        ELSE Ok(result)

\* the body of get_fee_percent (lib.rs line 81)
format_percent(p) == format_2(f64_div(u64_as_f64(p), 100))

\* ------------------------------------------------------------------------
\* Inputs of the model
MaxTokens == 2

MaxInitTokens == 2

\* account ids, in the order of AccountId (the order BTreeSet iterates in)
TokenIds == <<"aurora", "usdt.near", "wrap.near">>

Tokens == {TokenIds[i] : i \in 1..MaxTokens}

Accounts == {"alice.near", "bob.near"}

Networks == {"aurora"}

\* the `tokens: Vec<AccountId>` given to the constructor: duplicates allowed
TokenLists == UNION {[1..n -> Tokens] : n \in 0..MaxInitTokens}

\* percent strings given to set_fee_percent
PercentInputs ==
    { <<"6">>, <<"7", ".", "5">>, <<"1", "0">>, <<"0", ".", "0", "1">>,
      <<"0", ".", "2", "9">>, <<"6", ".", "1", "2", "3">>,
      <<"1", "2", ".", "1", "2">>, <<"0">>, <<"-", "1">>, <<"x">> }

\* u128 amounts given to calculate_fees: small ones, the largest amount whose
\* product with MAX_FEE_PERCENT fits u128, its successor, and u128::MAX
Amounts ==
    { <<>>, NatToBits(19), NatToBits(1000),
      BigDivSmall(U128_MAX, MAX_FEE_PERCENT),
      BigAddSmall(BigDivSmall(U128_MAX, MAX_FEE_PERCENT), 1),
      U128_MAX }

\* ------------------------------------------------------------------------
\* The contract (struct FeesCalculator, lib.rs lines 17-21) and the last call
VARIABLES percent, owner, supported_tokens, last

vars == <<percent, owner, supported_tokens, last>>

Self == [percent |-> percent, owner |-> owner, supported_tokens |-> supported_tokens]

\* A call returns v, with the contract state it leaves
Return(self, v) == [ok |-> TRUE, self |-> self, ret |-> v]

\* A call panics: the transaction fails and the stored state is not written
Panic(self, msg) == [ok |-> FALSE, self |-> self, panic |-> msg]

Range(seq) == {seq[i] : i \in 1..Len(seq)}

\* new taking the owner from env::current_account_id(), the contract itself
new_current_account(caller, tokens) ==
    [percent |-> DEFAULT_PERCENT, owner |-> "fees.near", supported_tokens |-> Range(tokens)]

\* FeesCalculator::new (lib.rs lines 32-38)
new(caller, tokens) ==
    [percent |-> DEFAULT_PERCENT, owner |-> caller, supported_tokens |-> Range(tokens)]

\* percent_fee dividing by 1000, as if the percent were scaled by 10
percent_fee_div_1000(p, amount) ==
    saturating_div(unwrap_or_default(checked_mul(p, amount)), 1000)

\* the arithmetic of calculate_fees (lib.rs lines 52-56)
percent_fee(p, amount) ==
    saturating_div(unwrap_or_default(checked_mul(p, amount)), 10000)

\* calculate_fees without the whitelist test
calculate_fees_any_token(self, amount, token_id, target_network, target_address) ==
    percent_fee(self.percent, amount)

\* FeesCalculator::calculate_fees (lib.rs lines 42-60)
calculate_fees(self, amount, token_id, target_network, target_address) ==
    IF token_id \in self.supported_tokens
    THEN percent_fee(self.percent, amount)
    ELSE <<>>

\* set_fee_percent without the owner assertion
set_fee_percent_any_caller(self, caller, s) ==
    LET r == parse_percent(s)
    IN  IF r.ok THEN Return([self EXCEPT !.percent = r.val], <<>>)
        ELSE Panic(self, <<"Couldn't parse percent", r.err>>)

\* FeesCalculator::set_fee_percent (lib.rs lines 68-75)
set_fee_percent(self, caller, s) ==
    IF caller # self.owner THEN Panic(self, "assertion failed: left == right")
    ELSE LET r == parse_percent(s)
         IN  IF r.ok THEN Return([self EXCEPT !.percent = r.val], <<>>)
             ELSE Panic(self, <<"Couldn't parse percent", r.err>>)

\* FeesCalculator::get_fee_percent (lib.rs lines 80-82)
get_fee_percent(self) == format_percent(self.percent)

\* BTreeSet::iter().collect(): the members in ascending order
RECURSIVE SortedSeq(_, _)
SortedSeq(set, i) ==
    IF i > Len(TokenIds) THEN <<>>
    ELSE (IF TokenIds[i] \in set THEN <<TokenIds[i]>> ELSE <<>>) \o SortedSeq(set, i + 1)

\* FeesCalculator::supported_tokens (lib.rs lines 86-88)
list_supported_tokens(self) == SortedSeq(self.supported_tokens, 1)

\* FeesCalculator::add_supported_token (lib.rs lines 95-100); the caller is
\* an argument of the model only: the method never reads it
add_supported_token(self, caller, token_id) ==
    IF token_id \notin self.supported_tokens
    THEN Return([self EXCEPT !.supported_tokens = @ \cup {token_id}], <<>>)
    ELSE Panic(self, "Token is already present")

\* remove_supported_token without the assertion on BTreeSet::remove
remove_supported_token_unchecked(self, caller, token_id) ==
    Return([self EXCEPT !.supported_tokens = @ \ {token_id}], <<>>)

\* FeesCalculator::remove_supported_token (lib.rs lines 107-112)
remove_supported_token(self, caller, token_id) ==
    IF token_id \in self.supported_tokens
    THEN Return([self EXCEPT !.supported_tokens = @ \ {token_id}], <<>>)
    ELSE Panic(self, "Nothing to remove")

\* ------------------------------------------------------------------------
\* The state machine: one action per public method; `last` records the call
Store(self) ==
    /\ percent' = self.percent
    /\ owner' = self.owner
    /\ supported_tokens' = self.supported_tokens

Init ==
    \E caller \in Accounts, tokens \in TokenLists :
        LET self == new(caller, tokens)
        IN  /\ percent = self.percent
            /\ owner = self.owner
            /\ supported_tokens = self.supported_tokens
            /\ last = [op |-> "new", caller |-> caller, tokens |-> tokens]

\* The result r of a call is bound with \E so that it is computed once.
SetFeePercent ==
    \E caller \in Accounts, s \in PercentInputs :
        \E r \in {set_fee_percent(Self, caller, s)} :
            /\ Store(r.self)
            /\ last' = [op |-> "set_fee_percent", caller |-> caller, percent |-> s,
                        ok |-> r.ok, out |-> IF r.ok THEN r.ret ELSE r.panic]

AddSupportedToken ==
    \E caller \in Accounts, t \in Tokens :
        \E r \in {add_supported_token(Self, caller, t)} :
            /\ Store(r.self)
            /\ last' = [op |-> "add_supported_token", caller |-> caller, token_id |-> t,
                        ok |-> r.ok, out |-> IF r.ok THEN r.ret ELSE r.panic]

RemoveSupportedToken ==
    \E caller \in Accounts, t \in Tokens :
        \E r \in {remove_supported_token(Self, caller, t)} :
            /\ Store(r.self)
            /\ last' = [op |-> "remove_supported_token", caller |-> caller, token_id |-> t,
                        ok |-> r.ok, out |-> IF r.ok THEN r.ret ELSE r.panic]

\* The three views take &self and read no caller: they cannot write the state.
GetFeePercent ==
    /\ last' = [op |-> "get_fee_percent", ok |-> TRUE, out |-> get_fee_percent(Self)]
    /\ UNCHANGED <<percent, owner, supported_tokens>>

SupportedTokens ==
    /\ last' = [op |-> "supported_tokens", ok |-> TRUE, out |-> list_supported_tokens(Self)]
    /\ UNCHANGED <<percent, owner, supported_tokens>>

CalculateFees ==
    \E amount \in Amounts, t \in Tokens, n \in Networks :
        /\ last' = [op |-> "calculate_fees", amount |-> amount, token_id |-> t,
                    target_network |-> n, ok |-> TRUE,
                    out |-> calculate_fees(Self, amount, t, n, "0xea2342")]
        /\ UNCHANGED <<percent, owner, supported_tokens>>

Next ==
    \/ SetFeePercent
    \/ GetFeePercent
    \/ SupportedTokens
    \/ AddSupportedToken
    \/ RemoveSupportedToken
    \/ CalculateFees

Spec == Init /\ [][Next]_vars

\* ------------------------------------------------------------------------
\* Vocabulary of the properties
Mutators == {"set_fee_percent", "add_supported_token", "remove_supported_token"}

Views == {"calculate_fees", "get_fee_percent", "supported_tokens"}

ParseErrors == {"TooManyDecimals", "ParseFloat", "TooLowPercent", "TooHighPercent"}

\* amount * p as a natural number, without any width
Product(amount, p) == BigMulSmall(amount, p)

FitsU128(b) == Len(b) <= U128_BITS

BigMin(a, b) == IF BigLeq(a, b) THEN a ELSE b

IsDigits(s) == \A i \in 1..Len(s) : s[i] \in DigitSet

\* s is a decimal numeral with at most two fractional digits
IsTwoDecimal(s) ==
    LET sp == split_once(s, ".")
    IN  IF sp.some
        THEN /\ IsDigits(sp.val[1]) /\ IsDigits(sp.val[2])
             /\ Len(sp.val[1]) + Len(sp.val[2]) > 0
             /\ Len(sp.val[2]) <= 2
        ELSE s # <<>> /\ IsDigits(s)

\* the exact number of hundredths such a numeral denotes
Hundredths(s) ==
    LET sp == split_once(s, ".")
        ip == IF sp.some THEN sp.val[1] ELSE s
        fp == IF sp.some THEN sp.val[2] ELSE <<>>
    IN  100 * DigitsToNat(ip) + DigitsToNat(fp \o [i \in 1..(2 - Len(fp)) |-> "0"])

\* k hundredths written with exactly two decimals
TwoDecimals(k) ==
    NatToDigits(k \div 100)
      \o <<".", DigitChars[((k \div 10) % 10) + 1], DigitChars[(k % 10) + 1]>>

\* ------------------------------------------------------------------------
\* C1: for a whitelisted token calculate_fees returns
\* floor(min(amount * percent, u128::MAX) / 10000): an overflowing product
\* counts as u128::MAX.
C1_SaturatedFee ==
    (last.op = "calculate_fees" /\ last.token_id \in supported_tokens)
        => last.out = BigDivSmall(BigMin(Product(last.amount, percent), U128_MAX), 10000)

\* C2: the stored percent is always within MIN_FEE_PERCENT..MAX_FEE_PERCENT,
\* it is DEFAULT_PERCENT right after the constructor, and it changes only in
\* a set_fee_percent whose string parse_percent accepts, to the parsed value.
C2_PercentInRange ==
    /\ [](percent \in MIN_FEE_PERCENT..MAX_FEE_PERCENT)
    /\ [](last.op = "new" => percent = DEFAULT_PERCENT)
    /\ [][percent' # percent =>
            /\ last'.op = "set_fee_percent"
            /\ last'.ok
            /\ parse_percent(last'.percent) = Ok(percent')]_vars

C2_Witness ==
    /\ last.op = "set_fee_percent" /\ last.ok
    /\ percent = MAX_FEE_PERCENT

C4_OnlyOwnerMutates ==
    [][(last'.op \in Mutators /\ last'.caller # owner)
          => (percent' = percent /\ supported_tokens' = supported_tokens)]_vars

\* C5: set_fee_percent panics and leaves percent, owner and whitelist
\* unchanged when the caller is not the owner or parse_percent rejects the
\* string; otherwise it succeeds and stores exactly the parsed value.
C5_SetFeePercentAllOrNothing ==
    [][last'.op = "set_fee_percent" =>
          \A parsed \in {parse_percent(last'.percent)} :
              IF last'.caller = owner /\ parsed.ok
              THEN /\ last'.ok
                   /\ percent' = parsed.val
                   /\ UNCHANGED <<owner, supported_tokens>>
              ELSE /\ ~last'.ok
                   /\ UNCHANGED <<percent, owner, supported_tokens>>
                   /\ last'.caller = owner =>
                         /\ parsed.err \in ParseErrors
                         /\ last'.out = <<"Couldn't parse percent", parsed.err>>]_vars

C5_Witness ==
    /\ last.op = "set_fee_percent" /\ ~last.ok
    /\ last.caller = owner
    /\ last.out = <<"Couldn't parse percent", "TooHighPercent">>
    /\ percent \notin {DEFAULT_PERCENT, MAX_FEE_PERCENT}

\* C6: add_supported_token of a token already in the whitelist panics with
\* "Token is already present" and changes nothing, otherwise it adds exactly
\* that token; remove_supported_token of a token not in the whitelist panics
\* with "Nothing to remove" and changes nothing, otherwise it removes exactly
\* that token; the listed whitelist holds no token twice.
C6_AddRemoveChecked ==
    /\ [](last.op = "supported_tokens" =>
            /\ Range(last.out) = supported_tokens
            /\ Len(last.out) = Cardinality(supported_tokens))
    /\ [][/\ last'.op = "add_supported_token" =>
                IF last'.token_id \in supported_tokens
                THEN /\ ~last'.ok /\ last'.out = "Token is already present"
                     /\ supported_tokens' = supported_tokens
                ELSE /\ last'.ok
                     /\ supported_tokens' = supported_tokens \cup {last'.token_id}
          /\ last'.op = "remove_supported_token" =>
                IF last'.token_id \notin supported_tokens
                THEN /\ ~last'.ok /\ last'.out = "Nothing to remove"
                     /\ supported_tokens' = supported_tokens
                ELSE /\ last'.ok
                     /\ supported_tokens' = supported_tokens \ {last'.token_id}]_vars

C6_Witness ==
    /\ last.op = "remove_supported_token" /\ ~last.ok
    /\ last.out = "Nothing to remove"
    /\ supported_tokens # {}

\* C7: for a whitelisted token and the stored percent, a larger amount never
\* has a smaller fee, products beyond u128 included.
C7_FeeMonotone ==
    (last.op = "calculate_fees" /\ last.token_id \in supported_tokens) =>
        \A a2 \in Amounts :
            BigLeq(last.amount, a2) =>
                BigLeq(last.out,
                       calculate_fees(Self, a2, last.token_id, last.target_network, "0xea2342"))

\* C8: when amount * percent fits u128, ten times the fee is at most the
\* amount.
C8_FeeAtMostTenth ==
    (last.op = "calculate_fees" /\ FitsU128(Product(last.amount, percent)))
        => BigLeq(BigMulSmall(last.out, 10), last.amount)

C8_Witness ==
    /\ last.op = "calculate_fees"
    /\ last.token_id \in supported_tokens
    /\ percent = MAX_FEE_PERCENT
    /\ last.amount = BigDivSmall(U128_MAX, MAX_FEE_PERCENT)
    /\ last.out # <<>>

\* C9: set_fee_percent by the owner with a numeral of at most two decimals
\* denoting k hundredths, k in 1..1000, stores exactly k, and get_fee_percent
\* returns the stored percent written with two decimals.
C9_ParseExact ==
    /\ (/\ last.op = "set_fee_percent" /\ last.caller = owner
        /\ IsTwoDecimal(last.percent)
        /\ Hundredths(last.percent) \in MIN_FEE_PERCENT..MAX_FEE_PERCENT)
           => (last.ok /\ percent = Hundredths(last.percent))
    /\ last.op = "get_fee_percent" => last.out = TwoDecimals(percent)

\* C10: the owner is the caller of the constructor and no call changes it;
\* calculate_fees, get_fee_percent and supported_tokens change nothing.
C10_OwnerFixed ==
    /\ [](last.op = "new" => owner = last.caller)
    /\ [][/\ owner' = owner
          /\ last'.op \in Views => UNCHANGED <<percent, owner, supported_tokens>>]_vars

C10_Witness ==
    /\ last.op = "set_fee_percent" /\ last.ok
    /\ last.caller = owner
    /\ percent # DEFAULT_PERCENT
    /\ supported_tokens # {}

====
